---- MODULE Spec2Model ----
(***************************************************************************)
(* Model of MCP2ToolConverter (sgr_agent_core/services/mcp_service.py):    *)
(* the coroutine build_tools_from_mcp, the client it opens, the tools it   *)
(* enumerates and the tool classes it assembles.                           *)
(*                                                                         *)
(* Spec models one call of build_tools_from_mcp, SpecConc several calls     *)
(* interleaved on one event loop, SpecNorm the helper _to_CamelCase on its  *)
(* own, and SpecApi the handler execute_task of api.py.                    *)
(*                                                                         *)
(* In a call of build_tools_from_mcp the coroutine suspends                *)
(* at three awaits (client.__aenter__, client.list_tools and               *)
(* client.__aexit__); at each of them the awaited call may succeed, raise  *)
(* an Exception, or the hosting task may be cancelled                      *)
(* (asyncio.CancelledError, a BaseException that `except Exception` does   *)
(* not catch).  The for loop has no await, each iteration is one step.     *)
(***************************************************************************)
EXTENDS Integers, Sequences, FiniteSets, TLC

(* ---------------- bounds ---------------- *)
MaxServers == 2
MaxOps == 2
MaxNameLen == 3
NBuilds == 2
MaxConcOps == 1

(* ---------------- characters and str methods ---------------- *)
LowerLetters == <<"a","b","c","d","e","f","g","h","i","j","k","l","m",
                  "n","o","p","q","r","s","t","u","v","w","x","y","z">>
UpperLetters == <<"A","B","C","D","E","F","G","H","I","J","K","L","M",
                  "N","O","P","Q","R","S","T","U","V","W","X","Y","Z">>

IsLower(c) == \E k \in 1..Len(LowerLetters) : LowerLetters[k] = c
IsUpper(c) == \E k \in 1..Len(UpperLetters) : UpperLetters[k] = c
IsCased(c) == IsLower(c) \/ IsUpper(c)

Upper(c) == IF IsLower(c)
            THEN UpperLetters[CHOOSE k \in 1..Len(LowerLetters) : LowerLetters[k] = c]
            ELSE c
Lower(c) == IF IsUpper(c)
            THEN LowerLetters[CHOOSE k \in 1..Len(UpperLetters) : UpperLetters[k] = c]
            ELSE c

\* str.replace(old, new) for a one-character old and new
StrReplace(s, old, new) == [k \in 1..Len(s) |-> IF s[k] = old THEN new ELSE s[k]]

\* str.replace(old, "") for a one-character old
StrRemove(s, old) ==
    LET Rm[k \in 0..Len(s)] ==
          IF k = 0 THEN <<>>
          ELSE IF s[k] = old THEN Rm[k-1] ELSE Append(Rm[k-1], s[k])
    IN Rm[Len(s)]

\* str.capitalize() in the place of str.title()
StrTitle_Capitalize(s) ==
    [k \in 1..Len(s) |-> IF k = 1 THEN Upper(s[k]) ELSE Lower(s[k])]

\* str.title(): a cased character is upper-cased when the character before
\* it is not cased (or there is none) and lower-cased otherwise; uncased
\* characters are kept.
StrTitle(s) ==
    [k \in 1..Len(s) |->
        IF IsCased(s[k])
        THEN IF k > 1 /\ IsCased(s[k-1]) THEN Lower(s[k]) ELSE Upper(s[k])
        ELSE s[k]]

\* _to_CamelCase with the "MCP" prefix of line 48 folded into it
to_CamelCase_Prefixed(name) ==
    <<"M","C","P">> \o StrRemove(StrTitle(StrReplace(name, "_", " ")), " ")

\* name.replace("_", " ").title().replace(" ", "")
to_CamelCase(name) == StrRemove(StrTitle(StrReplace(name, "_", " ")), " ")

(* ---------------- inputs ---------------- *)
\* Operation names the provider may advertise ("" , "a_b", "a b").
Names == { <<>>, <<"a","_","b">>, <<"a"," ","b">> }

\* inputSchema of an advertised tool: None, {}, a schema SchemaConverter.build
\* accepts, a schema SchemaConverter.build raises on.
Schemas == {"none", "empty", "good", "bad"}

\* description of an advertised tool: None or a text.
NoDescription == "<None>"
Descriptions == {NoDescription, "find bread"}

Descriptors == [name : Names, inputSchema : Schemas, description : Descriptions]

RECURSIVE SeqsUpTo(_, _)
SeqsUpTo(S, n) ==
    IF n = 0 THEN {<<>>}
    ELSE LET shorter == SeqsUpTo(S, n - 1)
         IN shorter \cup {Append(q, x) : q \in {r \in shorter : Len(r) = n - 1}, x \in S}

Enumerations == SeqsUpTo(Descriptors, MaxOps)

(* ---------------- state ---------------- *)
VARIABLES
    nservers,   \* len(config.mcpServers)
    pc,         \* position of the coroutine
    conn,       \* state of the Client's session
    opens,      \* number of client.__aenter__ invocations
    closes,     \* number of client.__aexit__ invocations
    listed,     \* list_tools has returned
    mcp_tools,  \* the list list_tools returned
    i,          \* index of the loop's next element of mcp_tools
    tools,      \* the local list `tools`
    caught,     \* the exception bound in `except Exception as e`
    err,        \* the exception that left the coroutine
    ret,        \* the value the coroutine returned: the list, nothing else
    errlog,     \* number of logger.error records
    infolog,    \* number of logger.info records
    nclients,   \* number of Client objects constructed (line 27)
    client,     \* the local `client`: the Client of line 27, 0 before it
    converted   \* indices of mcp_tools for which lines 41-42 were entered

buildVars == <<nservers, pc, conn, opens, closes, listed, mcp_tools, i, tools,
               caught, err, ret, errlog, infolog, nclients, client, converted>>

NoError == "None"
NoClient == 0

\* _to_CamelCase applied to a name, and applied again to its result
VARIABLES
    npc,          \* "input", "once" (normalized), "twice" (normalized again)
    raw_name,     \* the argument `name`
    canonical,    \* _to_CamelCase(raw_name)
    recanonical   \* _to_CamelCase(canonical)

normVars == <<npc, raw_name, canonical, recanonical>>

\* several calls of build_tools_from_mcp interleaved on one event loop
VARIABLES
    cservers,   \* per call: len(config.mcpServers)
    cpc,        \* per call: position of the coroutine
    cclient,    \* per call: the local `client`
    cnclients,  \* number of Client objects constructed
    cconn,      \* per Client: state of its session
    ccloser,    \* per Client: the calls that invoked its __aexit__
    cmcp,       \* per call: the list list_tools returned
    ctools,     \* per call: the local list `tools`
    ccaught,    \* per call: the exception bound in `except Exception as e`
    cerr        \* per call: the exception that left the coroutine

concVars == <<cservers, cpc, cclient, cnclients, cconn, ccloser, cmcp, ctools,
              ccaught, cerr>>

\* one POST /task request handled by execute_task (api.py)
VARIABLES
    agents,     \* keys of config.agents
    agent_name, \* request.agent_name
    apc,        \* position of the handler
    exc,        \* the exception raised inside the try of line 83
    origin,     \* where it was raised: "lookup", "create", "execute"
    agent,      \* the created agent's id, 0 before
    status,     \* HTTP status of the response, 0 before
    success     \* TaskResponse.success of a 200 response

apiVars == <<agents, agent_name, apc, exc, origin, agent, status, success>>

vars == <<buildVars, normVars, concVars, apiVars>>
otherVars == <<normVars, concVars, apiVars>>

Builds == 1..NBuilds
Clients == 1..NBuilds

NormIdle ==
    /\ npc = "input"
    /\ raw_name = <<>>
    /\ canonical = <<>>
    /\ recanonical = <<>>

ConcStart ==
    /\ cpc = [b \in Builds |-> "start"]
    /\ cclient = [b \in Builds |-> NoClient]
    /\ cnclients = 0
    /\ cconn = [c \in Clients |-> "none"]
    /\ ccloser = [c \in Clients |-> {}]
    /\ cmcp = [b \in Builds |-> <<>>]
    /\ ctools = [b \in Builds |-> <<>>]
    /\ ccaught = [b \in Builds |-> NoError]
    /\ cerr = [b \in Builds |-> NoError]

ConcIdle ==
    /\ cservers = [b \in Builds |-> 0]
    /\ ConcStart

ApiStart ==
    /\ apc = "received"
    /\ exc = NoError
    /\ origin = "none"
    /\ agent = 0
    /\ status = 0
    /\ success = FALSE

ApiIdle ==
    /\ agents = {}
    /\ agent_name = "vkusvill_shopping_agent"
    /\ ApiStart

InitBuild ==
    /\ nservers \in 0..MaxServers
    /\ pc = "start"
    /\ conn = "none"
    /\ opens = 0
    /\ closes = 0
    /\ listed = FALSE
    /\ mcp_tools = <<>>
    /\ i = 1
    /\ tools = <<>>
    /\ caught = NoError
    /\ err = NoError
    /\ ret = [tools |-> <<>>]
    /\ errlog = 0
    /\ infolog = 0
    /\ nclients = 0
    /\ client = NoClient
    /\ converted = {}

BuildIdle ==
    /\ InitBuild
    /\ nservers = 0

Init ==
    /\ InitBuild
    /\ NormIdle
    /\ ConcIdle
    /\ ApiIdle

(* ---------------- build_tools_from_mcp ---------------- *)
\* BuildStart without the early return of lines 22-23
BuildStart_NoShortCircuit ==
    /\ pc = "start"
    /\ pc' = "opening"
    /\ conn' = "opening"
    /\ opens' = opens + 1
    /\ UNCHANGED <<nservers, closes, listed, mcp_tools, i, tools, caught, err,
                   ret, errlog, infolog>>
    /\ nclients' = nclients + 1
    /\ client' = nclients + 1
    /\ UNCHANGED converted
    /\ UNCHANGED otherVars

\* lines 21-30: tools = []; return at once when there are no servers,
\* otherwise construct the Client and await client.__aenter__().
BuildStart ==
    /\ pc = "start"
    /\ IF nservers = 0
       THEN /\ pc' = "returned"
            /\ ret' = [tools |-> tools]
            /\ UNCHANGED <<conn, opens, nclients, client>>
       ELSE /\ nclients' = nclients + 1
            /\ client' = nclients + 1
            /\ pc' = "opening"
            /\ conn' = "opening"
            /\ opens' = opens + 1
            /\ UNCHANGED ret
    /\ UNCHANGED <<nservers, closes, listed, mcp_tools, i, tools, caught, err,
                   errlog, infolog, converted>>
    /\ UNCHANGED otherVars

\* line 30 completes; line 33 awaits client.list_tools()
OpenOK ==
    /\ pc = "opening"
    /\ conn' = "open"
    /\ pc' = "enumerating"
    /\ UNCHANGED <<nservers, opens, closes, listed, mcp_tools, i, tools, caught,
                   err, ret, errlog, infolog>>
    /\ UNCHANGED <<nclients, client, converted>>
    /\ UNCHANGED otherVars

\* OpenFail with the await of line 30 moved inside the try of line 32
OpenFail_InsideTry ==
    /\ pc = "opening"
    /\ conn' = "failed"
    /\ caught' = "ConnectionError"
    /\ closes' = closes + 1
    /\ pc' = "closing"
    /\ UNCHANGED <<nservers, opens, listed, mcp_tools, i, tools, err, ret,
                   errlog, infolog>>
    /\ UNCHANGED <<nclients, client, converted>>
    /\ UNCHANGED otherVars

\* line 30 raises: the await is outside the try, the exception leaves the
\* coroutine as it is and __aexit__ is not called.
OpenFail ==
    /\ pc = "opening"
    /\ conn' = "failed"
    /\ err' = "ConnectionError"
    /\ pc' = "raised"
    /\ UNCHANGED <<nservers, opens, closes, listed, mcp_tools, i, tools, caught,
                   ret, errlog, infolog>>
    /\ UNCHANGED <<nclients, client, converted>>
    /\ UNCHANGED otherVars

\* the task is cancelled while line 30 is awaited
CancelOpening ==
    /\ pc = "opening"
    /\ conn' = "failed"
    /\ err' = "CancelledError"
    /\ pc' = "raised"
    /\ UNCHANGED <<nservers, opens, closes, listed, mcp_tools, i, tools, caught,
                   ret, errlog, infolog>>
    /\ UNCHANGED <<nclients, client, converted>>
    /\ UNCHANGED otherVars

\* line 33 returns the advertised tools
EnumerateOK ==
    /\ pc = "enumerating"
    /\ \E ts \in Enumerations : mcp_tools' = ts
    /\ listed' = TRUE
    /\ i' = 1
    /\ pc' = "loop"
    /\ UNCHANGED <<nservers, conn, opens, closes, tools, caught, err, ret,
                   errlog, infolog>>
    /\ UNCHANGED <<nclients, client, converted>>
    /\ UNCHANGED otherVars

\* EnumerateFail without the handler of lines 59-62
EnumerateFail_NoClose ==
    /\ pc = "enumerating"
    /\ err' = "EnumerationError"
    /\ pc' = "raised"
    /\ UNCHANGED <<nservers, conn, opens, closes, listed, mcp_tools, i, tools,
                   caught, ret, errlog, infolog>>
    /\ UNCHANGED <<nclients, client, converted>>
    /\ UNCHANGED otherVars

\* line 33 raises an Exception: lines 59-61 catch it and await __aexit__
EnumerateFail ==
    /\ pc = "enumerating"
    /\ caught' = "EnumerationError"
    /\ closes' = closes + 1
    /\ pc' = "closing"
    /\ UNCHANGED <<nservers, conn, opens, listed, mcp_tools, i, tools, err, ret,
                   errlog, infolog>>
    /\ UNCHANGED <<nclients, client, converted>>
    /\ UNCHANGED otherVars

\* the task is cancelled while line 33 is awaited: CancelledError is not an
\* Exception, line 59 does not catch it
CancelEnumerating ==
    /\ pc = "enumerating"
    /\ err' = "CancelledError"
    /\ pc' = "raised"
    /\ UNCHANGED <<nservers, conn, opens, closes, listed, mcp_tools, i, tools,
                   caught, ret, errlog, infolog>>
    /\ UNCHANGED <<nclients, client, converted>>
    /\ UNCHANGED otherVars

\* ToolCls of a build that gives every tool a Client of its own
ToolCls_OwnClient(t) ==
    [ cls_name     |-> <<"M","C","P">> \o to_CamelCase(t.name),
      title        |-> to_CamelCase(t.name),
      doc          |-> IF t.description = NoDescription THEN "" ELSE t.description,
      tool_name    |-> t.name,
      description  |-> IF t.description = NoDescription THEN "" ELSE t.description,
      client       |-> client + Len(tools) + 1,
      client_config |-> nservers ]

\* ToolCls with the canonical identifier stored as tool_name (line 50)
ToolCls_CanonicalName(t) ==
    [ cls_name     |-> <<"M","C","P">> \o to_CamelCase(t.name),
      title        |-> to_CamelCase(t.name),
      doc          |-> IF t.description = NoDescription THEN "" ELSE t.description,
      tool_name    |-> to_CamelCase(t.name),
      description  |-> IF t.description = NoDescription THEN "" ELSE t.description,
      client       |-> client,
      client_config |-> nservers ]

\* the class create_model builds and lines 50-54 fill in
ToolCls(t) ==
    [ cls_name     |-> <<"M","C","P">> \o to_CamelCase(t.name),
      title        |-> to_CamelCase(t.name),
      doc          |-> IF t.description = NoDescription THEN "" ELSE t.description,
      tool_name    |-> t.name,
      description  |-> IF t.description = NoDescription THEN "" ELSE t.description,
      client       |-> client,
      client_config |-> nservers ]

\* lines 41-42: assigning the title and SchemaConverter.build succeed only
\* for a schema the converter accepts (None is not subscriptable, a schema
\* without a type is refused).
Converts(schema) == schema = "good"

\* line 36 with the schema test left out
Unusable_NameOnly(t) == t.name = <<>>

\* line 36: not t.name or not t.inputSchema  (None and {} are both falsy)
Unusable(t) == t.name = <<>> \/ t.inputSchema \in {"none", "empty"}

\* lines 36-38
SkipUnusable ==
    /\ pc = "loop"
    /\ i <= Len(mcp_tools)
    /\ Unusable(mcp_tools[i])
    /\ errlog' = errlog + 1
    /\ i' = i + 1
    /\ UNCHANGED <<nservers, pc, conn, opens, closes, listed, mcp_tools, tools,
                   caught, err, ret, infolog>>
    /\ UNCHANGED <<nclients, client, converted>>
    /\ UNCHANGED otherVars

\* SkipConversion without the logger.error of line 44
SkipConversion_Silent ==
    /\ pc = "loop"
    /\ i <= Len(mcp_tools)
    /\ ~Unusable(mcp_tools[i])
    /\ ~Converts(mcp_tools[i].inputSchema)
    /\ i' = i + 1
    /\ UNCHANGED <<nservers, pc, conn, opens, closes, listed, mcp_tools, tools,
                   caught, err, ret, errlog, infolog>>
    /\ converted' = converted \cup {i}
    /\ UNCHANGED <<nclients, client>>
    /\ UNCHANGED otherVars

\* lines 40-45: line 41 or SchemaConverter.build raises
SkipConversion ==
    /\ pc = "loop"
    /\ i <= Len(mcp_tools)
    /\ ~Unusable(mcp_tools[i])
    /\ ~Converts(mcp_tools[i].inputSchema)
    /\ errlog' = errlog + 1
    /\ i' = i + 1
    /\ UNCHANGED <<nservers, pc, conn, opens, closes, listed, mcp_tools, tools,
                   caught, err, ret, infolog>>
    /\ converted' = converted \cup {i}
    /\ UNCHANGED <<nclients, client>>
    /\ UNCHANGED otherVars

\* lines 40-56: the model is built, create_model succeeds, the class is
\* appended
AppendTool ==
    /\ pc = "loop"
    /\ i <= Len(mcp_tools)
    /\ ~Unusable(mcp_tools[i])
    /\ Converts(mcp_tools[i].inputSchema)
    /\ tools' = Append(tools, ToolCls(mcp_tools[i]))
    /\ infolog' = infolog + 1
    /\ i' = i + 1
    /\ UNCHANGED <<nservers, pc, conn, opens, closes, listed, mcp_tools, caught,
                   err, ret, errlog>>
    /\ converted' = converted \cup {i}
    /\ UNCHANGED <<nclients, client>>
    /\ UNCHANGED otherVars

\* lines 47-49 raise: create_model is outside the inner try, the exception
\* reaches `except Exception` of line 59, which awaits __aexit__
AssembleFail ==
    /\ pc = "loop"
    /\ i <= Len(mcp_tools)
    /\ ~Unusable(mcp_tools[i])
    /\ Converts(mcp_tools[i].inputSchema)
    /\ caught' = "ModelCreationError"
    /\ closes' = closes + 1
    /\ pc' = "closing"
    /\ UNCHANGED <<nservers, conn, opens, listed, mcp_tools, i, tools, err, ret,
                   errlog, infolog>>
    /\ converted' = converted \cup {i}
    /\ UNCHANGED <<nclients, client>>
    /\ UNCHANGED otherVars

\* LoopEnd of a build that closes the client before it returns
LoopEnd_Closing ==
    /\ pc = "loop"
    /\ i > Len(mcp_tools)
    /\ infolog' = infolog + 1
    /\ ret' = [tools |-> tools]
    /\ conn' = "closed"
    /\ closes' = closes + 1
    /\ pc' = "returned"
    /\ UNCHANGED <<nservers, opens, listed, mcp_tools, i, tools, caught, err,
                   errlog>>
    /\ UNCHANGED <<nclients, client, converted>>
    /\ UNCHANGED otherVars

\* lines 58, 66: the loop is over, the count is logged, tools is returned
LoopEnd ==
    /\ pc = "loop"
    /\ i > Len(mcp_tools)
    /\ infolog' = infolog + 1
    /\ ret' = [tools |-> tools]
    /\ pc' = "returned"
    /\ UNCHANGED <<nservers, conn, opens, closes, listed, mcp_tools, i, tools,
                   caught, err, errlog>>
    /\ UNCHANGED <<nclients, client, converted>>
    /\ UNCHANGED otherVars

\* lines 61-62: __aexit__ completes, the caught exception is re-raised
CloseDone ==
    /\ pc = "closing"
    /\ conn' = "closed"
    /\ err' = caught
    /\ pc' = "raised"
    /\ UNCHANGED <<nservers, opens, closes, listed, mcp_tools, i, tools, caught,
                   ret, errlog, infolog>>
    /\ UNCHANGED <<nclients, client, converted>>
    /\ UNCHANGED otherVars

\* CancelClosing with a cancellation handler that invokes __aexit__ again
CancelClosing_CloseAgain ==
    /\ pc = "closing"
    /\ conn' \in {"open", "closed"}
    /\ closes' = closes + 1
    /\ err' = "CancelledError"
    /\ pc' = "raised"
    /\ UNCHANGED <<nservers, opens, listed, mcp_tools, i, tools, caught,
                   ret, errlog, infolog>>
    /\ UNCHANGED <<nclients, client, converted>>
    /\ UNCHANGED otherVars

\* the task is cancelled while line 61 is awaited: whether the session was
\* torn down by then is up to the client
CancelClosing ==
    /\ pc = "closing"
    /\ conn' \in {"open", "closed"}
    /\ err' = "CancelledError"
    /\ pc' = "raised"
    /\ UNCHANGED <<nservers, opens, closes, listed, mcp_tools, i, tools, caught,
                   ret, errlog, infolog>>
    /\ UNCHANGED <<nclients, client, converted>>
    /\ UNCHANGED otherVars

Next ==
    \/ BuildStart
    \/ OpenOK
    \/ OpenFail
    \/ CancelOpening
    \/ EnumerateOK
    \/ EnumerateFail
    \/ CancelEnumerating
    \/ SkipUnusable
    \/ SkipConversion
    \/ AppendTool
    \/ AssembleFail
    \/ LoopEnd
    \/ CloseDone
    \/ CancelClosing

Spec == Init /\ [][Next]_vars

TypeOK ==
    /\ nservers \in 0..MaxServers
    /\ pc \in {"start", "opening", "enumerating", "loop", "closing", "returned", "raised"}
    /\ conn \in {"none", "opening", "open", "closed", "failed"}
    /\ opens \in 0..1
    /\ closes \in 0..1
    /\ listed \in BOOLEAN
    /\ Len(mcp_tools) <= MaxOps
    /\ \A k \in 1..Len(mcp_tools) : mcp_tools[k] \in Descriptors
    /\ i \in 1..(MaxOps + 1)
    /\ err \in {NoError, "ConnectionError", "EnumerationError", "ModelCreationError", "CancelledError"}
    /\ caught \in {NoError, "EnumerationError", "ModelCreationError"}
    /\ DOMAIN ret = {"tools"}
    /\ Len(ret.tools) <= Len(tools)
    /\ Len(tools) < i
    /\ nclients \in 0..1
    /\ client \in {NoClient, 1}
    /\ converted \subseteq 1..MaxOps

(* ---------------- _to_CamelCase on its own ---------------- *)
NormAlphabet == {"a", "b", "B", "_", " "}
FindFreshBread == <<"f","i","n","d","_","f","r","e","s","h","_","b","r","e","a","d">>
SearchItems == <<"s","e","a","r","c","h"," ","i","t","e","m","s">>
NormInputs ==
    (SeqsUpTo(NormAlphabet, MaxNameLen) \ {<<>>}) \cup {FindFreshBread, SearchItems}

InitNorm ==
    /\ BuildIdle
    /\ ConcIdle
    /\ ApiIdle
    /\ npc = "input"
    /\ raw_name \in NormInputs
    /\ canonical = <<>>
    /\ recanonical = <<>>

\* a call _to_CamelCase(raw_name)
Normalize ==
    /\ npc = "input"
    /\ canonical' = to_CamelCase(raw_name)
    /\ npc' = "once"
    /\ UNCHANGED <<raw_name, recanonical>>
    /\ UNCHANGED <<buildVars, concVars, apiVars>>

\* a call _to_CamelCase on the identifier the first call produced
NormalizeAgain ==
    /\ npc = "once"
    /\ recanonical' = to_CamelCase(canonical)
    /\ npc' = "twice"
    /\ UNCHANGED <<raw_name, canonical>>
    /\ UNCHANGED <<buildVars, concVars, apiVars>>

NextNorm ==
    \/ Normalize
    \/ NormalizeAgain

SpecNorm == InitNorm /\ [][NextNorm]_vars

(* ---------------- interleaved calls of build_tools_from_mcp ---------------- *)
\* Each call runs on the event loop until its next await; the whole for loop
\* of lines 35-56 runs without interruption once list_tools has returned.
ConcDescriptors ==
    {t \in Descriptors : /\ t.name = <<"a","_","b">>
                         /\ t.description = NoDescription
                         /\ t.inputSchema \in {"good", "bad"}}

ConcEnumerations == SeqsUpTo(ConcDescriptors, MaxConcOps)

InitConc ==
    /\ BuildIdle
    /\ NormIdle
    /\ ApiIdle
    /\ cservers \in [Builds -> 0..1]
    /\ ConcStart

\* lines 47-54 in call b: the class holds the call's own `client` and `config`
CToolCls(b, t) ==
    [ToolCls(t) EXCEPT !.client = cclient[b], !.client_config = cservers[b]]

\* lines 35-56 in call b over the entries ts, none of which makes
\* create_model raise
RECURSIVE CLoop(_, _)
CLoop(b, ts) ==
    IF ts = <<>> THEN <<>>
    ELSE IF Unusable(Head(ts)) \/ ~Converts(Head(ts).inputSchema)
         THEN CLoop(b, Tail(ts))
         ELSE <<CToolCls(b, Head(ts))>> \o CLoop(b, Tail(ts))

\* CBuildStart of a converter that keeps one Client for all calls
CBuildStart_SharedClient(b) ==
    /\ cpc[b] = "start"
    /\ IF cservers[b] = 0
       THEN /\ cpc' = [cpc EXCEPT ![b] = "returned"]
            /\ UNCHANGED <<cclient, cnclients, cconn>>
       ELSE /\ cnclients' = 1
            /\ cclient' = [cclient EXCEPT ![b] = 1]
            /\ cconn' = [cconn EXCEPT ![1] = IF cconn[1] = "none" THEN "opening" ELSE cconn[1]]
            /\ cpc' = [cpc EXCEPT ![b] = "opening"]
    /\ UNCHANGED <<cservers, ccloser, cmcp, ctools, ccaught, cerr>>
    /\ UNCHANGED <<buildVars, normVars, apiVars>>

\* lines 21-30 in call b
CBuildStart(b) ==
    /\ cpc[b] = "start"
    /\ IF cservers[b] = 0
       THEN /\ cpc' = [cpc EXCEPT ![b] = "returned"]
            /\ UNCHANGED <<cclient, cnclients, cconn>>
       ELSE /\ cnclients' = cnclients + 1
            /\ cclient' = [cclient EXCEPT ![b] = cnclients + 1]
            /\ cconn' = [cconn EXCEPT ![cnclients + 1] = "opening"]
            /\ cpc' = [cpc EXCEPT ![b] = "opening"]
    /\ UNCHANGED <<cservers, ccloser, cmcp, ctools, ccaught, cerr>>
    /\ UNCHANGED <<buildVars, normVars, apiVars>>

\* line 30 completes in call b
COpenOK(b) ==
    /\ cpc[b] = "opening"
    /\ cconn' = [cconn EXCEPT ![cclient[b]] = "open"]
    /\ cpc' = [cpc EXCEPT ![b] = "enumerating"]
    /\ UNCHANGED <<cservers, cclient, cnclients, ccloser, cmcp, ctools, ccaught, cerr>>
    /\ UNCHANGED <<buildVars, normVars, apiVars>>

\* line 30 raises in call b
COpenFail(b) ==
    /\ cpc[b] = "opening"
    /\ cconn' = [cconn EXCEPT ![cclient[b]] = "failed"]
    /\ cerr' = [cerr EXCEPT ![b] = "ConnectionError"]
    /\ cpc' = [cpc EXCEPT ![b] = "raised"]
    /\ UNCHANGED <<cservers, cclient, cnclients, ccloser, cmcp, ctools, ccaught>>
    /\ UNCHANGED <<buildVars, normVars, apiVars>>

\* call b is cancelled while line 30 is awaited
CCancelOpening(b) ==
    /\ cpc[b] = "opening"
    /\ cconn' = [cconn EXCEPT ![cclient[b]] = "failed"]
    /\ cerr' = [cerr EXCEPT ![b] = "CancelledError"]
    /\ cpc' = [cpc EXCEPT ![b] = "raised"]
    /\ UNCHANGED <<cservers, cclient, cnclients, ccloser, cmcp, ctools, ccaught>>
    /\ UNCHANGED <<buildVars, normVars, apiVars>>

\* line 33 returns in call b and lines 35-66 run to the return
CLoopReturns(b) ==
    /\ cpc[b] = "enumerating"
    /\ \E ts \in ConcEnumerations :
          /\ cmcp' = [cmcp EXCEPT ![b] = ts]
          /\ ctools' = [ctools EXCEPT ![b] = CLoop(b, ts)]
    /\ cpc' = [cpc EXCEPT ![b] = "returned"]
    /\ UNCHANGED <<cservers, cclient, cnclients, cconn, ccloser, ccaught, cerr>>
    /\ UNCHANGED <<buildVars, normVars, apiVars>>

\* line 33 returns in call b and create_model raises for entry f: lines
\* 59-61 catch it and await __aexit__ of the call's client
CLoopFails(b) ==
    /\ cpc[b] = "enumerating"
    /\ \E ts \in ConcEnumerations : \E f \in 1..Len(ts) :
          /\ ~Unusable(ts[f])
          /\ Converts(ts[f].inputSchema)
          /\ cmcp' = [cmcp EXCEPT ![b] = ts]
          /\ ctools' = [ctools EXCEPT ![b] = CLoop(b, SubSeq(ts, 1, f - 1))]
    /\ ccaught' = [ccaught EXCEPT ![b] = "ModelCreationError"]
    /\ ccloser' = [ccloser EXCEPT ![cclient[b]] = @ \cup {b}]
    /\ cpc' = [cpc EXCEPT ![b] = "closing"]
    /\ UNCHANGED <<cservers, cclient, cnclients, cconn, cerr>>
    /\ UNCHANGED <<buildVars, normVars, apiVars>>

\* line 33 raises in call b
CEnumerateFail(b) ==
    /\ cpc[b] = "enumerating"
    /\ ccaught' = [ccaught EXCEPT ![b] = "EnumerationError"]
    /\ ccloser' = [ccloser EXCEPT ![cclient[b]] = @ \cup {b}]
    /\ cpc' = [cpc EXCEPT ![b] = "closing"]
    /\ UNCHANGED <<cservers, cclient, cnclients, cconn, cmcp, ctools, cerr>>
    /\ UNCHANGED <<buildVars, normVars, apiVars>>

\* call b is cancelled while line 33 is awaited
CCancelEnumerating(b) ==
    /\ cpc[b] = "enumerating"
    /\ cerr' = [cerr EXCEPT ![b] = "CancelledError"]
    /\ cpc' = [cpc EXCEPT ![b] = "raised"]
    /\ UNCHANGED <<cservers, cclient, cnclients, cconn, ccloser, cmcp, ctools, ccaught>>
    /\ UNCHANGED <<buildVars, normVars, apiVars>>

\* lines 61-62 in call b
CCloseDone(b) ==
    /\ cpc[b] = "closing"
    /\ cconn' = [cconn EXCEPT ![cclient[b]] = "closed"]
    /\ cerr' = [cerr EXCEPT ![b] = ccaught[b]]
    /\ cpc' = [cpc EXCEPT ![b] = "raised"]
    /\ UNCHANGED <<cservers, cclient, cnclients, ccloser, cmcp, ctools, ccaught>>
    /\ UNCHANGED <<buildVars, normVars, apiVars>>

\* call b is cancelled while line 61 is awaited
CCancelClosing(b) ==
    /\ cpc[b] = "closing"
    /\ \E st \in {"open", "closed"} : cconn' = [cconn EXCEPT ![cclient[b]] = st]
    /\ cerr' = [cerr EXCEPT ![b] = "CancelledError"]
    /\ cpc' = [cpc EXCEPT ![b] = "raised"]
    /\ UNCHANGED <<cservers, cclient, cnclients, ccloser, cmcp, ctools, ccaught>>
    /\ UNCHANGED <<buildVars, normVars, apiVars>>

NextConc ==
    \E b \in Builds :
        \/ CBuildStart(b)
        \/ COpenOK(b)
        \/ COpenFail(b)
        \/ CCancelOpening(b)
        \/ CLoopReturns(b)
        \/ CLoopFails(b)
        \/ CEnumerateFail(b)
        \/ CCancelEnumerating(b)
        \/ CCloseDone(b)
        \/ CCancelClosing(b)

SpecConc == InitConc /\ [][NextConc]_vars

(* ---------------- execute_task (api.py) ---------------- *)
AgentNames == {"vkusvill_shopping_agent", "other_agent"}
RequestNames == AgentNames \cup {"unknown_agent"}
\* exceptions AgentFactory.create and agent.execute may raise
Exceptions == {"KeyError", "ValueError", "RuntimeError", "TimeoutError"}

InitApi ==
    /\ BuildIdle
    /\ NormIdle
    /\ ConcIdle
    /\ agents \in SUBSET AgentNames
    /\ agent_name \in RequestNames
    /\ ApiStart

\* lines 83-90: config.agents[request.agent_name] is evaluated, then
\* AgentFactory.create is awaited; a missing key raises KeyError
ALookup ==
    /\ apc = "received"
    /\ IF agent_name \in agents
       THEN /\ apc' = "creating"
            /\ UNCHANGED <<exc, origin>>
       ELSE /\ exc' = "KeyError"
            /\ origin' = "lookup"
            /\ apc' = "caught"
    /\ UNCHANGED <<agents, agent_name, agent, status, success>>
    /\ UNCHANGED <<buildVars, normVars, concVars>>

\* line 87 completes; line 95 awaits agent.execute()
ACreateOK ==
    /\ apc = "creating"
    /\ agent' = 1
    /\ apc' = "executing"
    /\ UNCHANGED <<agents, agent_name, exc, origin, status, success>>
    /\ UNCHANGED <<buildVars, normVars, concVars>>

\* AgentFactory.create raises
ACreateFail ==
    /\ apc = "creating"
    /\ exc' \in Exceptions
    /\ origin' = "create"
    /\ apc' = "caught"
    /\ UNCHANGED <<agents, agent_name, agent, status, success>>
    /\ UNCHANGED <<buildVars, normVars, concVars>>

\* the request's task is cancelled while line 87 is awaited
ACancelCreating ==
    /\ apc = "creating"
    /\ apc' = "cancelled"
    /\ UNCHANGED <<agents, agent_name, exc, origin, agent, status, success>>
    /\ UNCHANGED <<buildVars, normVars, concVars>>

\* line 95 completes; lines 97-104 return the success response
AExecuteOK ==
    /\ apc = "executing"
    /\ status' = 200
    /\ success' = TRUE
    /\ apc' = "responded"
    /\ UNCHANGED <<agents, agent_name, exc, origin, agent>>
    /\ UNCHANGED <<buildVars, normVars, concVars>>

\* agent.execute raises
AExecuteFail ==
    /\ apc = "executing"
    /\ exc' \in Exceptions
    /\ origin' = "execute"
    /\ apc' = "caught"
    /\ UNCHANGED <<agents, agent_name, agent, status, success>>
    /\ UNCHANGED <<buildVars, normVars, concVars>>

\* the request's task is cancelled while line 95 is awaited
ACancelExecuting ==
    /\ apc = "executing"
    /\ apc' = "cancelled"
    /\ UNCHANGED <<agents, agent_name, exc, origin, agent, status, success>>
    /\ UNCHANGED <<buildVars, normVars, concVars>>

\* lines 106-118: `except KeyError` answers 404, `except Exception` 500
AHandle ==
    /\ apc = "caught"
    /\ status' = IF exc = "KeyError" THEN 404 ELSE 500
    /\ apc' = "responded"
    /\ UNCHANGED <<agents, agent_name, exc, origin, agent, success>>
    /\ UNCHANGED <<buildVars, normVars, concVars>>

NextApi ==
    \/ ALookup
    \/ ACreateOK
    \/ ACreateFail
    \/ ACancelCreating
    \/ AExecuteOK
    \/ AExecuteFail
    \/ ACancelExecuting
    \/ AHandle

SpecApi == InitApi /\ [][NextApi]_vars

(* ---------------- properties ---------------- *)
\* An advertised operation a tool is built from: it has a name and a schema
\* that SchemaConverter.build accepts.
Valid(t) == t.name # <<>> /\ t.inputSchema = "good"

RECURSIVE ExpectedTools(_)
ExpectedTools(ts) ==
    IF ts = <<>> THEN <<>>
    ELSE IF Valid(Head(ts)) THEN <<ToolCls(Head(ts))>> \o ExpectedTools(Tail(ts))
         ELSE ExpectedTools(Tail(ts))

InvalidCount(ts) == Cardinality({k \in 1..Len(ts) : ~Valid(ts[k])})

Terminated == pc \in {"returned", "raised"}

\* C1: with no configured server build returns the empty list and never
\* invokes client.__aenter__ (the count of opens stays 0).
C1_EmptyConfigNoOpen ==
    nservers = 0 =>
        /\ opens = 0
        /\ conn = "none"
        /\ pc \in {"start", "returned"}
        /\ (pc = "returned" => ret.tools = <<>>)

C1_Witness == nservers = 0 /\ pc = "returned"

\* C2: once open and enumerate have succeeded, build returns exactly the
\* tools of the valid entries, in the order of enumeration.
C2_ReturnsValidInOrder ==
    (listed /\ Terminated) => (pc = "returned" /\ ret.tools = ExpectedTools(mcp_tools))

C4_EnumerateFailureCloses ==
    (pc = "raised" /\ err = "EnumerationError") =>
        /\ conn = "closed"
        /\ closes = 1
        /\ tools = <<>>
        /\ ret.tools = <<>>

C4_Witness == pc = "raised" /\ err = "EnumerationError" /\ opens = 1 /\ ~listed

\* C5: no failure of one enumerated operation (name, schema, conversion,
\* assembly of the tool) reaches the caller of build.
C5_NoPerOperationErrorPropagates ==
    ~(pc = "raised" /\ err = "ModelCreationError")

\* C6: when build returns after having opened a connection the connection is
\* open and build has not invoked close, however many operations it skipped.
C6_ReturnedOpen ==
    (pc = "returned" /\ opens > 0) => (conn = "open" /\ closes = 0)

C6_Witness ==
    /\ pc = "returned"
    /\ opens > 0
    /\ Len(mcp_tools) = MaxOps
    /\ Len(ret.tools) = 1

\* C7: a build cancelled after its connection was opened ends with the
\* connection closed.
C7_CancelCloses ==
    (pc = "raised" /\ err = "CancelledError") => conn # "open"

\* C8: the close of the connection starts only from a failed enumerate; after
\* a successful enumerate the loop only continues or returns, and no step of
\* the loop closes the connection.
C8_StateMachine ==
    [][ /\ (pc' = "closing" /\ pc # "closing") => pc = "enumerating"
        /\ pc = "loop" => (pc' \in {"loop", "returned"} /\ closes' = closes /\ conn' = conn)
      ]_vars

\* C9: every error that reaches the caller of build is a BuildSetupError.
C9_OnlyBuildSetupError ==
    pc = "raised" => err = "BuildSetupError"

C11_OneSharedClient ==
    /\ \A k \in 1..Len(tools) : tools[k].client = client /\ client # NoClient
    /\ (pc = "returned" /\ nservers > 0) =>
          /\ nclients = 1
          /\ opens = 1
          /\ \A k \in 1..Len(ret.tools) : ret.tools[k].client = client

C11_Witness == pc = "returned" /\ Len(ret.tools) = MaxOps /\ MaxOps >= 2

\* C12: a Client is opened at most once and closed at most once, close is
\* invoked only on an opened session, and the session never goes back to
\* unopened nor from closed to open.
C12_OneOpenOneClose ==
    [][ /\ opens' <= 1
        /\ closes' <= 1
        /\ (closes' > closes => conn = "open")
        /\ (conn # "none" => conn' # "none")
        /\ (conn \in {"open", "closed"} => conn' \in {"open", "closed"})
        /\ (conn = "closed" => conn' = "closed")
      ]_vars

C12_Witness == opens = 1 /\ closes = 1 /\ conn = "closed" /\ pc = "raised"

\* the advertised operations a tool is built from, in order
ValidEntries == SelectSeq(mcp_tools, Valid)

\* C13: every tool's tool_name is the name of its operation descriptor,
\* unchanged, and its description is the descriptor's, or "" when absent.
C13_RemoteNameVerbatim ==
    /\ Len(tools) <= Len(ValidEntries)
    /\ \A k \in 1..Len(tools) :
          /\ tools[k].tool_name = ValidEntries[k].name
          /\ tools[k].description =
                (IF ValidEntries[k].description = NoDescription THEN ""
                 ELSE ValidEntries[k].description)
    /\ pc = "returned" => ret.tools = tools

C13_Witness ==
    /\ pc = "returned"
    /\ Len(ret.tools) = MaxOps
    /\ ret.tools[1].tool_name # to_CamelCase(ret.tools[1].tool_name)
    /\ ret.tools[1].description = ""
    /\ mcp_tools[1].description = NoDescription

\* C14: two operations of one batch with different names get different
\* titles and different tool identifiers.
C14_DistinctIdentifiers ==
    \A j, k \in 1..Len(tools) :
        tools[j].tool_name # tools[k].tool_name =>
            /\ tools[j].title # tools[k].title
            /\ tools[j].cls_name # tools[k].cls_name

\* C17 (as stated): an operation is rejected before conversion exactly when
\* its name is empty or its schema is absent.
C17_RejectedIffAbsent ==
    \A k \in 1..Len(mcp_tools) :
        k < i => (k \notin converted <=>
                    (mcp_tools[k].name = <<>> \/ mcp_tools[k].inputSchema = "none"))

\* C17 (amended): an operation is rejected before conversion exactly when its
\* name is empty or its schema is absent or empty.
C17_RejectedIffFalsy ==
    \A k \in 1..Len(mcp_tools) :
        LET falsy == \/ mcp_tools[k].name = <<>>
                     \/ mcp_tools[k].inputSchema \in {"none", "empty"}
        IN /\ k \in converted => ~falsy
           /\ k < i => (k \notin converted <=> falsy)

C17_Witness ==
    /\ pc = "returned"
    /\ Len(mcp_tools) = MaxOps
    /\ mcp_tools[1].name # <<>>
    /\ mcp_tools[1].inputSchema = "empty"
    /\ 1 \notin converted
    /\ MaxOps \in converted

\* The stated policy: split on underscores and spaces, title-case each
\* segment (first letter upper case, the others lower case), concatenate.
Separators == {"_", " "}

RECURSIVE RefNormalizeFrom(_, _)
RefNormalizeFrom(s, atSegmentStart) ==
    IF s = <<>> THEN <<>>
    ELSE IF Head(s) \in Separators THEN RefNormalizeFrom(Tail(s), TRUE)
    ELSE <<IF atSegmentStart THEN Upper(Head(s)) ELSE Lower(Head(s))>>
            \o RefNormalizeFrom(Tail(s), FALSE)

RefNormalize(s) == RefNormalizeFrom(s, TRUE)

\* number of non-empty segments of a name
NSegments(s) ==
    Cardinality({k \in 1..Len(s) :
                    s[k] \notin Separators /\ (k = 1 \/ s[k-1] \in Separators)})

\* C15: on every non-empty name of letters, underscores and spaces
\* _to_CamelCase gives what the stated policy gives; "find_fresh_bread" gives
\* "FindFreshBread" and "search items" gives "SearchItems".
C15_MatchesPolicy ==
    npc # "input" =>
        /\ canonical = RefNormalize(raw_name)
        /\ raw_name = FindFreshBread =>
              canonical = <<"F","i","n","d","F","r","e","s","h","B","r","e","a","d">>
        /\ raw_name = SearchItems =>
              canonical = <<"S","e","a","r","c","h","I","t","e","m","s">>

C15_Witness ==
    /\ npc = "once"
    /\ raw_name = FindFreshBread
    /\ canonical = <<"F","i","n","d","F","r","e","s","h","B","r","e","a","d">>

C18_OwnClientPerBuild ==
    /\ \A b \in Builds :
          /\ \A k \in 1..Len(ctools[b]) :
                ctools[b][k].client = cclient[b] /\ cclient[b] # NoClient
          /\ \A b2 \in Builds \ {b} :
                cclient[b] # NoClient => cclient[b2] # cclient[b]
          /\ (cpc[b] = "returned" /\ cservers[b] > 0) => cconn[cclient[b]] = "open"
    /\ \A c \in Clients : \A b \in ccloser[c] : cclient[b] = c

C18_Witness ==
    \E b1, b2 \in Builds :
        /\ b1 # b2
        /\ cpc[b1] = "returned"
        /\ Len(ctools[b1]) >= 1
        /\ cpc[b2] = "raised"
        /\ cerr[b2] = "EnumerationError"
        /\ cconn[cclient[b2]] = "closed"

\* C19: POST /task answers 404 only when agent_name is not configured, 500
\* for every failure raised while creating or executing a configured agent,
\* and success only when creation and execution both completed.
C19_NotFoundOnlyForUnknownAgent ==
    apc = "responded" =>
        /\ status = 404 => agent_name \notin agents
        /\ origin \in {"create", "execute"} => status = 500
        /\ status = 200 => (success /\ agent # 0 /\ exc = NoError)

====
